---- MODULE Spec2Model ----
(***************************************************************************)
(* Model of the inventory analyser (src/src/modules/analyze_inventory.py)  *)
(* and of the inventory cleaner (src/src/modules/clean_inventory.py).      *)
(*                                                                         *)
(* Text is modelled as a sequence of tokens: a token is a piece of text    *)
(* that the code never looks inside (a host name, a variable name, a       *)
(* separator such as "; " or " (").  A membership line is the sequence of  *)
(* the tokens of the stripped line; a file name is <<root, extension>>, or *)
(* the one token of a dot-file such as ".yml"; a YAML document is the      *)
(* sequence of its <<key, value>> pairs in the order the dict iterates.    *)
(***************************************************************************)
EXTENDS Naturals, Sequences, FiniteSets, TLC

VARIABLES
    hostsFile,          \* <inventory>/hosts: the lines of the membership file
    hostVars,           \* <inventory>/host_vars: file name -> document
    groupVars,          \* <inventory>/group_vars: file name -> document
    hosts,              \* analyze_inventory: hosts, host -> its 'groups' list
    groups,             \* analyze_inventory: groups, group -> its host list
    missing_files,      \* analyze_inventory: missing_files
    orphaned_files,     \* analyze_inventory: orphaned_files (a list)
    analysis_results,   \* the report: host -> record, as returned to the caller
    skipped,            \* clean_host_vars: hosts of the last run met by the warning
    written,            \* clean_host_vars: paths of the last run given to save_yaml_file
    calls,              \* the caller's last calls, oldest first
    removals            \* files of host_vars removed by other processes so far

vars == <<hostsFile, hostVars, groupVars, hosts, groups, missing_files,
          orphaned_files, analysis_results, skipped, written, calls, removals>>

----------------------------------------------------------------------------
(* Bounds of the model *)

\* longest membership file of the membership family, in lines
MaxLines == 3
\* how many of the caller's calls are remembered
MaxTrail == 2
\* how many files other processes remove from host_vars during analyses
MaxRemovals == 1

----------------------------------------------------------------------------
(* Generic helpers *)

Range(s) == {s[i] : i \in DOMAIN s}

Last(s) == s[Len(s)]

EmptyMap == [x \in {} |-> x]

\* the concatenation of Op(s[1]), ..., Op(s[Len(s)]): the body of a for loop
\* that appends to one list
FlatMap(Op(_), s) ==
    LET F[i \in 0..Len(s)] == IF i = 0 THEN <<>> ELSE F[i - 1] \o Op(s[i])
    IN  F[Len(s)]

\* the number of places of s that hold e
Count(e, s) == Cardinality({i \in DOMAIN s : s[i] = e})

\* every sequence over S of at most n elements
SeqUpTo(S, n) == UNION {[1..m -> S] : m \in 0..n}

----------------------------------------------------------------------------
(* Text: str.join, str.split, str.lower *)

\* sep.join(parts), each part a text
Join(parts, sep) ==
    LET F[i \in 0..Len(parts)] ==
            IF i = 0 THEN <<>>
            ELSE IF i = 1 THEN parts[1]
            ELSE F[i - 1] \o <<sep>> \o parts[i]
    IN  F[Len(parts)]

\* text.split(sep): the pieces between the separators, [''] for the empty text
Split(text, sep) ==
    LET F[i \in 0..Len(text)] ==
            IF i = 0 THEN << <<>> >>
            ELSE LET done == F[i - 1]
                 IN  IF text[i] = sep THEN Append(done, <<>>)
                     ELSE [done EXCEPT ![Len(done)] = Append(@, text[i])]
    IN  F[Len(text)]

\* str.lower of one token
Lower(t) ==
    CASE t = "Port" -> "port"
      [] t = "N/A"  -> "n/a"
      [] OTHER      -> t

----------------------------------------------------------------------------
(* Documents: the dict yaml.safe_load returns *)

Keys(doc) == {doc[i][1] : i \in DOMAIN doc}

Get(doc, k) == doc[CHOOSE i \in DOMAIN doc : doc[i][1] = k][2]

\* del doc[k]
Del(doc, k) == SelectSeq(doc, LAMBDA p : p[1] # k)

\* the mapping a document stands for, whatever its order
Mapping(doc) == Range(doc)

\* code point order of the keys: PyYAML's safe_dump writes a mapping sorted by key
KeyOrder == <<"Port", "port">>

\* yaml.safe_dump(data) followed by a later yaml.safe_load: the same pairs, in key order
safe_dump(data) ==
    FlatMap(LAMBDA k : IF k \in Keys(data) THEN << <<k, Get(data, k)>> >> ELSE <<>>,
            KeyOrder)

----------------------------------------------------------------------------
(* File names and directories *)

YamlExts == {".yaml", ".yml"}

\* file_name.endswith('.yaml') or file_name.endswith('.yml')
EndsWithYaml(file_name) == Last(file_name) \in YamlExts

\* os.path.splitext(file_name)[0]: the name up to its last dot; the dot that
\* starts a name does not count, so a dot-file such as ".yml" is all root
splitext_root(file_name) ==
    IF Len(file_name) > 1 THEN file_name[1] ELSE Last(file_name)

\* os.path.join(dir, f"{host}.yaml") and os.path.join(dir, f"{host}.yml")
YamlPath(host) == <<host, ".yaml">>
YmlPath(host) == <<host, ".yml">>

\* a faulty variant: any file whose root is the host counts, whatever its
\* extension
HasHostFile_AnyExtension(dir, host) ==
    \E f \in DOMAIN dir : Len(f) > 1 /\ f[1] = host

\* os.path.exists(host_file_yaml) or os.path.exists(host_file_yml)
HasHostFile(dir, host) == YamlPath(host) \in DOMAIN dir \/ YmlPath(host) \in DOMAIN dir

\* the order in which os.listdir names the files; the order is the file
\* system's, and fixed here
DirOrder ==
    << <<"a", ".yaml">>, <<"a", ".yml">>, <<"a", ".txt">>, <<"b", ".yml">>, <<".yml">>,
       <<"g1", ".yml">>, <<"g2", ".yml">> >>

listdir(dir) == SelectSeq(DirOrder, LAMBDA f : f \in DOMAIN dir)

\* load_all_vars(dir_path): the names that end in .yaml or .yml, in listing order
\* (the documents are dir[name])
load_all_vars(dir) == SelectSeq(listdir(dir), EndsWithYaml)

----------------------------------------------------------------------------
(* parse_hosts_ini *)

\* current_group = None (and the empty name, which `elif current_group:` treats alike)
None == ""

\* line[1:-1].strip() of a header line
HeaderName(line) == IF Len(line) > 2 THEN line[2] ELSE ""

\* the host name of a host line: line.split()[0] when the line holds a space,
\* the whole line, which is then its one token, when it holds none
HostName(line) == line[1]

\* hosts[host_name].setdefault('groups', []).append(current_group)
AppendGroup(hs, host_name, group) ==
    (host_name :> Append(IF host_name \in DOMAIN hs THEN hs[host_name] ELSE <<>>, group))
        @@ hs

\* one turn of the loop over the lines of the membership file; st holds
\* current_group, hosts and groups, dir is host_vars as the probes find it
ParseLine(st, line, dir) ==
    IF line = <<>> \/ line[1] = "#" THEN st
    ELSE IF line[1] = "[" /\ Last(line) = "]"
    THEN [st EXCEPT !.current_group = HeaderName(line),
                    !.groups = (HeaderName(line) :> <<>>) @@ st.groups]
    ELSE IF st.current_group # None
    THEN IF HasHostFile(dir, HostName(line))
         THEN [st EXCEPT !.groups[st.current_group] = Append(@, HostName(line)),
                         !.hosts = AppendGroup(st.hosts, HostName(line), st.current_group)]
         ELSE st
    ELSE st

\* parse_hosts_ini: the record of hosts and groups (and the last current_group)
parse_hosts_ini(lines, dir) ==
    LET P[i \in 0..Len(lines)] ==
            IF i = 0 THEN [current_group |-> None, hosts |-> EmptyMap, groups |-> EmptyMap]
            ELSE ParseLine(P[i - 1], lines[i], dir)
    IN  P[Len(lines)]

----------------------------------------------------------------------------
(* check_duplicate_vars, check_inconsistent_values *)

\* the appends of check_duplicate_vars in the order they happen, each
\* <<var, group_file, host_name>>
DuplicateAppends(group_vars, host_vars) ==
    FlatMap(LAMBDA group_file :
      FlatMap(LAMBDA host_file :
        FlatMap(LAMBDA p :
                  IF p[1] \in Keys(host_vars[host_file])
                  THEN << <<p[1], group_file, splitext_root(host_file)>> >>
                  ELSE <<>>,
                group_vars[group_file]),
        load_all_vars(host_vars)),
      load_all_vars(group_vars))

\* a faulty variant: the values are not compared
InconsistentAppends_NoValueTest(group_vars, host_vars) ==
    FlatMap(LAMBDA group_file :
      FlatMap(LAMBDA host_file :
        FlatMap(LAMBDA p :
                  IF p[1] \in Keys(host_vars[host_file])
                  THEN << <<p[1], group_file, splitext_root(host_file), p[2],
                            Get(host_vars[host_file], p[1])>> >>
                  ELSE <<>>,
                group_vars[group_file]),
        load_all_vars(host_vars)),
      load_all_vars(group_vars))

\* the appends of check_inconsistent_values in the order they happen, each
\* <<var, group_file, host_name, group_value, host_value>>
InconsistentAppends(group_vars, host_vars) ==
    FlatMap(LAMBDA group_file :
      FlatMap(LAMBDA host_file :
        FlatMap(LAMBDA p :
                  IF p[1] \in Keys(host_vars[host_file])
                     /\ Get(host_vars[host_file], p[1]) # p[2]
                  THEN << <<p[1], group_file, splitext_root(host_file), p[2],
                            Get(host_vars[host_file], p[1])>> >>
                  ELSE <<>>,
                group_vars[group_file]),
        load_all_vars(host_vars)),
      load_all_vars(group_vars))

\* the keys of a defaultdict(list) in the order they were first appended to
VarOrder(appends) ==
    LET F[i \in 0..Len(appends)] ==
            IF i = 0 THEN <<>>
            ELSE LET seen == F[i - 1]
                 IN  IF appends[i][1] \in Range(seen) THEN seen
                     ELSE Append(seen, appends[i][1])
    IN  F[Len(appends)]

\* for var, files in d.items(): for each of files: the appends in dict order
check_duplicate_vars(group_vars, host_vars) ==
    LET a == DuplicateAppends(group_vars, host_vars)
    IN  FlatMap(LAMBDA var : SelectSeq(a, LAMBDA t : t[1] = var), VarOrder(a))

check_inconsistent_values(group_vars, host_vars) ==
    LET a == InconsistentAppends(group_vars, host_vars)
    IN  FlatMap(LAMBDA var : SelectSeq(a, LAMBDA t : t[1] = var), VarOrder(a))

----------------------------------------------------------------------------
(* analyze_inventory *)

NoDuplicatedVariables == <<"No duplicated variables">>
NoInconsistentVariables == <<"No inconsistent variables">>
NoDuplication == <<"No duplication in groups">>
NoGroupAssigned == <<"No group assigned">>
NA == <<"N/A">>

\* f"{var} (in {group_file} and {host_file})"
DuplicatedText(var, group_file, host_file) ==
    <<var, " (", "in ">> \o group_file \o <<" and ", host_file, ")">>

\* f"{var} ({group_file} value = {group_value}, {host} value = {host_value})"
InconsistentText(var, group_file, group_value, host, host_value) ==
    <<var, " (">> \o group_file
        \o <<" value = ", group_value, ", ", host, " value = ", host_value, ")">>

\* ", ".join(names), each name one token
JoinNames(names) == Join([i \in DOMAIN names |-> <<names[i]>>], ", ")

\* a faulty variant: a host counts as duplicated from its third entry on
duplicated_hosts_FromThree(hs) == {host \in DOMAIN hs : Len(hs[host]) > 2}

\* duplicated_hosts: the hosts with more than one entry in their 'groups' list
duplicated_hosts(hs) == {host \in DOMAIN hs : Len(hs[host]) > 1}

\* missing_files: the hosts of the model with neither file in host_vars now
MissingFiles(hs, dir) == {host \in DOMAIN hs : ~HasHostFile(dir, host)}

\* orphaned_files: one append for each .yaml/.yml file whose root is no host of the model
OrphanedFiles(hs, dir) ==
    FlatMap(LAMBDA file_name :
              IF splitext_root(file_name) \notin DOMAIN hs
              THEN <<splitext_root(file_name)>> ELSE <<>>,
            SelectSeq(listdir(dir), EndsWithYaml))

\* the record of a host of the model
HostRecord(host, hs, dups, incs, missing) ==
    LET duplicated_vars ==
            FlatMap(LAMBDA t : IF t[3] = host
                               THEN <<DuplicatedText(t[1], t[2], t[3])>> ELSE <<>>,
                    dups)
        inconsistent_vars ==
            FlatMap(LAMBDA t : IF t[3] = host
                               THEN <<InconsistentText(t[1], t[2], t[4], host, t[5])>>
                               ELSE <<>>,
                    incs)
    IN  [Groups |-> JoinNames(hs[host]),
         DuplicatedVariables |->
             IF duplicated_vars # <<>> THEN Join(duplicated_vars, "; ")
             ELSE NoDuplicatedVariables,
         InconsistentVariables |->
             IF inconsistent_vars # <<>> THEN Join(inconsistent_vars, "; ")
             ELSE NoInconsistentVariables,
         DuplicatedHost |->
             IF host \in duplicated_hosts(hs) THEN JoinNames(hs[host]) ELSE NoDuplication,
         MissingFile |-> IF host \in missing THEN "Yes" ELSE "No",
         OrphanedHostVar |-> "No"]

\* the record of an orphaned host
OrphanRecord ==
    [Groups |-> NoGroupAssigned,
     DuplicatedVariables |-> NA,
     InconsistentVariables |-> NA,
     DuplicatedHost |-> NoDuplication,
     MissingFile |-> "No",
     OrphanedHostVar |-> "Yes"]

\* analyze_inventory: lines and group_vars as read, host_vars as the parser's
\* probes find it (probed) and as it is from line 182 on (loaded).  The orphans
\* are written last, over any record of the same name.
analyze_inventory(lines, group_vars, probed, loaded) ==
    LET parsed == parse_hosts_ini(lines, probed)
        hs == parsed.hosts
        dups == check_duplicate_vars(group_vars, loaded)
        incs == check_inconsistent_values(group_vars, loaded)
        missing == MissingFiles(hs, loaded)
        orphaned == OrphanedFiles(hs, loaded)
    IN  [hosts |-> hs,
         groups |-> parsed.groups,
         missing_files |-> missing,
         orphaned_files |-> orphaned,
         analysis_results |->
             [host \in DOMAIN hs \cup Range(orphaned) |->
                 IF host \in Range(orphaned) THEN OrphanRecord
                 ELSE HostRecord(host, hs, dups, incs, missing)]]

----------------------------------------------------------------------------
(* clean_hosts *)

\* a faulty variant: the line of a host reported missing is kept
CleanLine_KeepMissing(line, results) ==
    IF line = <<>> \/ line[1] = "#" \/ line[1] = "["
    THEN <<line>>
    ELSE IF line[1] \in DOMAIN results
    THEN IF results[line[1]].DuplicatedHost # NoDuplication THEN <<>>
         ELSE <<line>>
    ELSE <<line>>

\* one turn of the loop over the lines: what is written for the line
CleanLine(line, results) ==
    IF line = <<>> \/ line[1] = "#" \/ line[1] = "["
    THEN <<line>>
    ELSE IF line[1] \in DOMAIN results
    THEN IF results[line[1]].DuplicatedHost # NoDuplication THEN <<>>
         ELSE IF results[line[1]].MissingFile = "Yes" THEN <<>>
         ELSE <<line>>
    ELSE <<line>>

\* clean_hosts: the lines written back to the membership file
clean_hosts(lines, results) == FlatMap(LAMBDA line : CleanLine(line, results), lines)

----------------------------------------------------------------------------
(* clean_host_vars *)

\* text.lower()
LowerText(text) == FlatMap(LAMBDA t : <<Lower(t)>>, text)

\* [var.split(" (")[0].lower() for var in field.split("; ")]
VarNames(field) ==
    FlatMap(LAMBDA var : <<LowerText(Split(var, " (")[1])>>, Split(field, "; "))

\* host_data_ci = {key.lower(): key for key in host_data}: of the keys with one
\* lower-case form, the last one the dict iterates stays
host_data_ci(host_data) ==
    LET F[i \in 0..Len(host_data)] ==
            IF i = 0 THEN EmptyMap
            ELSE (Lower(host_data[i][1]) :> host_data[i][1]) @@ F[i - 1]
    IN  F[Len(host_data)]

\* host_data_ci.get(var): the key kept for the text var, "" for None
CiGet(ci, var) ==
    IF Len(var) = 1 /\ var[1] \in DOMAIN ci THEN ci[var[1]] ELSE ""

\* for var in names: original_var = host_data_ci.get(var); if original_var and
\* original_var in host_data: del host_data[original_var]
RemoveVars(host_data, ci, names) ==
    LET F[i \in 0..Len(names)] ==
            IF i = 0 THEN host_data
            ELSE LET data == F[i - 1]
                     original_var == CiGet(ci, names[i])
                 IN  IF original_var # "" /\ original_var \in Keys(data)
                     THEN Del(data, original_var)
                     ELSE data
    IN  F[Len(names)]

\* lines 70-91 for one host whose file was loaded: the document that is saved
CleanDocument(host_data, analysis) ==
    LET ci == host_data_ci(host_data)
        d1 == IF analysis.DuplicatedVariables # NoDuplicatedVariables
              THEN RemoveVars(host_data, ci, VarNames(analysis.DuplicatedVariables))
              ELSE host_data
        d2 == IF analysis.InconsistentVariables # NoInconsistentVariables
              THEN RemoveVars(d1, ci, VarNames(analysis.InconsistentVariables))
              ELSE d1
    IN  safe_dump(d2)

\* a faulty variant: a file that is not there loads as the empty document
load_yaml_file_MissingAsEmpty(dir, host_file_path) ==
    IF host_file_path \in DOMAIN dir THEN <<dir[host_file_path]>> ELSE << <<>> >>

\* load_yaml_file(host_file_path) in the try of lines 62-67: <<document>>, or
\* <<>> for the FileNotFoundError of open()
load_yaml_file(dir, host_file_path) ==
    IF host_file_path \in DOMAIN dir THEN <<dir[host_file_path]>> ELSE <<>>

\* the hosts of the report the loop skips with the warning
SkippedHosts(dir, results) ==
    {host \in DOMAIN results : load_yaml_file(dir, YmlPath(host)) = <<>>}

\* clean_host_vars: host_vars after the loop, the hosts skipped and the paths
\* saved.  The turn of a host touches <host>.yml alone, so the order of the
\* turns does not show.
clean_host_vars(dir, results) ==
    LET skip == SkippedHosts(dir, results)
        saved == {YmlPath(host) : host \in DOMAIN results \ skip}
    IN  [host_vars |->
             [f \in DOMAIN dir \cup saved |->
                 IF f \in saved
                 THEN CleanDocument(load_yaml_file(dir, f)[1], results[f[1]])
                 ELSE dir[f]],
         skipped |-> skip,
         written |-> saved]

----------------------------------------------------------------------------
(* The inventories the model starts from *)

Header(group) == <<"[", group, "]">>

Restrict(f, S) == [x \in S |-> f[x]]

\* the lines of the membership family: two headers, a host line, a host line
\* with inline variables, a host line naming ".yml", a comment
MembershipLines ==
    {Header("g1"), Header("g2"), <<"a">>, <<"a", " ", "x=1">>, <<".yml">>,
     <<"#", "note">>}

\* a host declared in two groups, with a comment and a blank line between
TwoGroupsFile ==
    <<Header("g1"), <<"a">>, <<"#", "note">>, <<>>, Header("g2"), <<"a", " ", "x=1">>>>

\* the files host_vars may hold in the membership family, with their documents
MembershipFiles ==
    (<<"a", ".yml">> :> << <<"port", "8080">> >>) @@ (<<".yml">> :> <<>>)

\* a file of host_vars that is no YAML file
OtherFiles == (<<"a", ".txt">> :> <<>>)

\* the membership family: every short membership file and TwoGroupsFile, over
\* a host_vars that holds a.txt and any of a.yml and the dot-file .yml
InitMembership ==
    /\ hostsFile \in SeqUpTo(MembershipLines, MaxLines) \cup {TwoGroupsFile}
    /\ \E S \in SUBSET DOMAIN MembershipFiles :
          hostVars = Restrict(MembershipFiles, S) @@ OtherFiles
    /\ groupVars = (<<"g1", ".yml">> :> << <<"port", "80">> >>)

VarKeys == {"port", "Port"}
VarValues == {"80", "8080"}

\* every document over VarKeys and VarValues, in every order of its keys
HostDocs ==
    {d \in UNION {[1..n -> VarKeys \X VarValues] : n \in 0..Cardinality(VarKeys)} :
        \A i, j \in DOMAIN d : d[i][1] = d[j][1] => i = j}

\* a file that may be missing: <<>> for no file, <<document>> for a file
Maybe(docs) == {<<>>} \cup {<<d>> : d \in docs}

\* the directory of the files that are there
Dir(content) == [f \in {g \in DOMAIN content : content[g] # <<>>} |-> content[f][1]]

\* the variables family: hosts a and b under [g1] or declared nowhere, any
\* document in a.yaml and a.yml, port in b.yml, and group files naming port or Port
InitVars ==
    /\ hostsFile \in {SubSeq(<<Header("g1"), <<"a">>, <<"b">>>>, 1, n) : n \in 1..3}
    /\ \E ya \in Maybe(HostDocs), ym \in Maybe(HostDocs) :
          hostVars = Dir((<<"a", ".yaml">> :> ya) @@ (<<"a", ".yml">> :> ym)
                             @@ (<<"b", ".yml">> :> << << <<"port", "8080">> >> >>))
    /\ \E g1 \in {<< <<"port", "80">> >>, << <<"Port", "80">> >>},
          g2 \in Maybe({<< <<"port", "8080">> >>}) :
          groupVars = Dir((<<"g1", ".yml">> :> <<g1>>) @@ (<<"g2", ".yml">> :> g2))

\* nothing analysed, nothing cleaned yet
InitRun ==
    /\ hosts = EmptyMap
    /\ groups = EmptyMap
    /\ missing_files = {}
    /\ orphaned_files = <<>>
    /\ analysis_results = EmptyMap
    /\ skipped = {}
    /\ written = {}
    /\ calls = <<>>
    /\ removals = 0

Init == InitMembership /\ InitRun

InitV == InitVars /\ InitRun

----------------------------------------------------------------------------
(* The calls *)

Trail(s) == IF Len(s) > MaxTrail THEN Tail(s) ELSE s

\* analyze_inventory(inventory_base_path), host_vars being `loaded` from line 182 on
Analyzed(loaded, call) ==
    LET r == analyze_inventory(hostsFile, groupVars, hostVars, loaded)
    IN  /\ hostVars' = loaded
        /\ hosts' = r.hosts
        /\ groups' = r.groups
        /\ missing_files' = r.missing_files
        /\ orphaned_files' = r.orphaned_files
        /\ analysis_results' = r.analysis_results
        /\ calls' = Trail(Append(calls, call))
        /\ UNCHANGED <<hostsFile, groupVars, skipped, written>>

\* analyze_inventory, nothing else touching the inventory during the run
AnalyzeInventory ==
    /\ Analyzed(hostVars, "analyze")
    /\ UNCHANGED removals

\* analyze_inventory while another process removes one variable file of host_vars after
\* the membership file is parsed (line 176) and before host_vars is read (line 182)
AnalyzeInventoryDuringRemoval ==
    /\ removals < MaxRemovals
    /\ \E f \in Range(load_all_vars(hostVars)) :
          Analyzed(Restrict(hostVars, DOMAIN hostVars \ {f}), "analyze during removal")
    /\ removals' = removals + 1

\* clean_inventory(inventory_base_path, analysis_results) with the last report
CleanInventory ==
    /\ calls # <<>>
    /\ LET c == clean_host_vars(hostVars, analysis_results)
       IN  /\ hostsFile' = clean_hosts(hostsFile, analysis_results)
           /\ hostVars' = c.host_vars
           /\ skipped' = c.skipped
           /\ written' = c.written
    /\ calls' = Trail(Append(calls, "clean"))
    /\ UNCHANGED <<groupVars, hosts, groups, missing_files, orphaned_files,
                   analysis_results, removals>>

Next == AnalyzeInventory \/ AnalyzeInventoryDuringRemoval \/ CleanInventory

Spec == Init /\ [][Next]_vars

SpecVars == InitV /\ [][Next]_vars

----------------------------------------------------------------------------
(* What the claims speak of *)

AnalyzeCalls == {"analyze", "analyze during removal"}

\* the step is a call of analyze_inventory, of clean_inventory
AnalyzeStep == calls' # <<>> /\ Last(calls') \in AnalyzeCalls
CleanStep == calls' # <<>> /\ Last(calls') = "clean"

\* the state is the one a call of analyze_inventory, of clean_inventory left
JustAnalyzed == calls # <<>> /\ Last(calls) \in AnalyzeCalls
JustCleaned == calls # <<>> /\ Last(calls) = "clean"

\* the last two calls were c1 then c2
LastTwo(cs, c1, c2) == Len(cs) >= 2 /\ cs[Len(cs) - 1] = c1 /\ cs[Len(cs)] = c2

\* a line that is no header, no comment and not blank, and its first token
IsHostLine(line) == line # <<>> /\ line[1] \notin {"#", "["}
FirstToken(line) == Head(line)

\* the host has a variable file in dir, under either extension
Backed(dir, host) == \E ext \in YamlExts : <<host, ext>> \in DOMAIN dir

\* the YAML files of dir that belong to the host
FilesOf(dir, host) ==
    {f \in DOMAIN dir : Last(f) \in YamlExts /\ splitext_root(f) = host}

\* the entries of a list field of a record, none for a sentinel
Entries(field, sep) ==
    IF field \in {NoDuplicatedVariables, NoInconsistentVariables, NoDuplication, NA}
    THEN <<>> ELSE Split(field, sep)

\* the group of the header that governs line i of the membership file, None
\* when no header comes before it
GroupAt(lines, i) ==
    LET hs == {j \in 1..(i - 1) : lines[j] # <<>> /\ lines[j][1] = "[" /\ Last(lines[j]) = "]"}
    IN  IF hs = {} THEN None ELSE lines[CHOOSE j \in hs : \A k \in hs : k <= j][2]

\* the groups of the accepted membership lines of a host, in file order: the
\* host lines that name it under a header while it has a variable file
AcceptedGroups(lines, dir, host) ==
    LET F[i \in 0..Len(lines)] ==
            IF i = 0 THEN <<>>
            ELSE IF IsHostLine(lines[i]) /\ FirstToken(lines[i]) = host
                    /\ GroupAt(lines, i) # None /\ Backed(dir, host)
                 THEN Append(F[i - 1], GroupAt(lines, i))
                 ELSE F[i - 1]
    IN  F[Len(lines)]

----------------------------------------------------------------------------
(* C1 *)

\* the host lines of the membership file whose first token has neither
\* <id>.yaml nor <id>.yml in dir
Unbacked(lines, dir) ==
    {FirstToken(lines[i]) : i \in {j \in DOMAIN lines :
        IsHostLine(lines[j]) /\ ~Backed(dir, FirstToken(lines[j]))}}

----------------------------------------------------------------------------
(* C2 *)

\* C2: after an analysis, the root of every .yaml/.yml file of host_vars that
\* is no host of the model is in orphaned_files exactly once and has a record
\* with Orphaned Host Var Yes, Missing File No and Groups 'No group assigned';
\* no record is both orphaned and missing
C2_Orphans ==
    JustAnalyzed =>
        /\ \A f \in DOMAIN hostVars :
              (Last(f) \in YamlExts /\ splitext_root(f) \notin DOMAIN hosts) =>
                  /\ Count(splitext_root(f), orphaned_files) = 1
                  /\ splitext_root(f) \in DOMAIN analysis_results
                  /\ analysis_results[splitext_root(f)].OrphanedHostVar = "Yes"
                  /\ analysis_results[splitext_root(f)].MissingFile = "No"
                  /\ analysis_results[splitext_root(f)].Groups = NoGroupAssigned
        /\ \A h \in DOMAIN analysis_results :
              ~(analysis_results[h].OrphanedHostVar = "Yes"
                  /\ analysis_results[h].MissingFile = "Yes")

----------------------------------------------------------------------------
(* C3 *)

\* C3: for a host of the model with two or more accepted membership lines,
\* Duplicated Host is not the sentinel, not empty, and lists the groups of
\* those lines, one per line, in file order; with one accepted line it is the
\* sentinel 'No duplication in groups'
C3_DuplicatedHost ==
    [][AnalyzeStep =>
        \A h \in DOMAIN hosts' :
            LET occ == AcceptedGroups(hostsFile, hostVars, h)
                field == analysis_results'[h].DuplicatedHost
            IN  /\ Len(occ) >= 1
                /\ Len(occ) >= 2 =>
                      /\ field # NoDuplication
                      /\ field # <<>>
                      /\ Split(field, ", ") = [i \in DOMAIN occ |-> <<occ[i]>>]
                /\ Len(occ) = 1 => field = NoDuplication]_vars

\* a host declared under two groups is reported with both, and a host declared
\* once has the sentinel
C3_Witness ==
    /\ JustAnalyzed
    /\ \E h \in DOMAIN hosts :
          /\ hosts[h] = <<"g1", "g2">>
          /\ analysis_results[h].DuplicatedHost = <<"g1", ", ", "g2">>

----------------------------------------------------------------------------
(* C10 *)

\* C10: in the hosts and groups of an analysis, a group is as many times in a
\* host's group list as the host is in the group's host list
C10_ModelConsistency ==
    JustAnalyzed =>
        \A h \in DOMAIN hosts : \A g \in DOMAIN groups \cup Range(hosts[h]) :
            Count(g, hosts[h]) = IF g \in DOMAIN groups THEN Count(h, groups[g]) ELSE 0

----------------------------------------------------------------------------
(* C6 *)

\* the record of the host names it duplicated or missing
Flagged(results, host) ==
    /\ host \in DOMAIN results
    /\ \/ results[host].DuplicatedHost # NoDuplication
       \/ results[host].MissingFile = "Yes"

\* C6: clean_hosts writes the lines back in their order, every header, comment
\* and blank line kept, a host line dropped exactly when the record of its
\* first token has Duplicated Host set or Missing File Yes
C6_MembershipRewrite ==
    [][CleanStep =>
        hostsFile' =
            SelectSeq(hostsFile,
                      LAMBDA line : ~(IsHostLine(line)
                                        /\ Flagged(analysis_results, FirstToken(line))))]_vars

\* after a cleanup, every line of a host reported as duplicated is gone while
\* the comment and the blank line between them stay
C6_Witness ==
    /\ JustCleaned
    /\ "a" \in DOMAIN analysis_results
    /\ analysis_results["a"].DuplicatedHost = <<"g1", ", ", "g2">>
    /\ hostsFile = <<Header("g1"), <<"#", "note">>, <<>>, Header("g2")>>

----------------------------------------------------------------------------
(* C4, C5, C7 *)

\* the lower-case names a record lists in Duplicated Variables and in
\* Inconsistent Variables; the sentinels and N/A list none
NamedVars(analysis) ==
    {n[1] : n \in Range(VarNames(Join(
        Entries(analysis.DuplicatedVariables, "; ")
            \o Entries(analysis.InconsistentVariables, "; "), "; "))) \ {<<>>}}

\* C4: a cleanup that follows a cleanup with the same report changes neither
\* the membership file nor the mapping of any host variable file
C4_CleanupIdempotent ==
    [][(JustCleaned /\ CleanStep) =>
        /\ hostsFile' = hostsFile
        /\ DOMAIN hostVars' = DOMAIN hostVars
        /\ \A f \in DOMAIN hostVars : Mapping(hostVars'[f]) = Mapping(hostVars[f])]_vars

\* C5: the document clean_host_vars writes for a host holds the pairs of the
\* original whose key the record does not name, and no key the record names,
\* whatever the letter case of the key
C5_CleanupRoundTrip ==
    [][CleanStep =>
        \A h \in DOMAIN analysis_results :
            YmlPath(h) \in DOMAIN hostVars =>
                Mapping(hostVars'[YmlPath(h)]) =
                    {p \in Mapping(hostVars[YmlPath(h)]) :
                        Lower(p[1]) \notin NamedVars(analysis_results[h])}]_vars

\* the record reports no defect cleanup is there to remove
NoDefect(analysis) ==
    /\ analysis.DuplicatedHost = NoDuplication
    /\ analysis.MissingFile = "No"
    /\ Entries(analysis.DuplicatedVariables, "; ") = <<>>
    /\ Entries(analysis.InconsistentVariables, "; ") = <<>>

\* C7: an analysis, a cleanup with its report and a second analysis, nothing
\* else changing the files: the second report holds no duplicated host, no
\* missing file, no duplicated and no inconsistent variable
C7_CleanupRemovesDefects ==
    [][(LastTwo(calls, "analyze", "clean") /\ calls' # <<>> /\ Last(calls') = "analyze") =>
        \A h \in DOMAIN analysis_results' : NoDefect(analysis_results'[h])]_vars

----------------------------------------------------------------------------
(* C8 *)

\* C8: in a cleanup, a host of the report with no <host>.yml in host_vars is
\* skipped: no file of its name is created or modified; every host of the
\* report that has <host>.yml is not skipped and its file is rewritten as a
\* cleaned document: no pair added, every named key that matches a key of the
\* file removes one, every pair of a key that is not named kept
C8_SkippedHost ==
    [][CleanStep =>
        \A h \in DOMAIN analysis_results :
            IF YmlPath(h) \notin DOMAIN hostVars
            THEN /\ h \in skipped'
                 /\ YmlPath(h) \notin written'
                 /\ FilesOf(hostVars', h) = FilesOf(hostVars, h)
                 /\ \A f \in FilesOf(hostVars, h) : hostVars'[f] = hostVars[f]
            ELSE /\ h \notin skipped'
                 /\ YmlPath(h) \in written'
                 /\ YmlPath(h) \in DOMAIN hostVars'
                 /\ LET old == Mapping(hostVars[YmlPath(h)])
                        new == Mapping(hostVars'[YmlPath(h)])
                        named == NamedVars(analysis_results[h])
                    IN  /\ new \subseteq old
                        /\ \A n \in named :
                              (\E p \in old : Lower(p[1]) = n) =>
                                  \E p \in old \ new : Lower(p[1]) = n
                        /\ \A p \in old : Lower(p[1]) \notin named => p \in new]_vars

\* a cleanup skipped host a, whose only file a.yaml still holds the variable
\* the report names, and rewrote b.yml without the variable named for b
C8_Witness ==
    /\ JustCleaned
    /\ skipped = {"a"}
    /\ YamlPath("a") \in DOMAIN hostVars
    /\ YmlPath("a") \notin DOMAIN hostVars
    /\ "port" \in NamedVars(analysis_results["a"])
    /\ "port" \in {Lower(k) : k \in Keys(hostVars[YamlPath("a")])}
    /\ "b" \in DOMAIN analysis_results
    /\ YmlPath("b") \in written
    /\ "port" \in NamedVars(analysis_results["b"])
    /\ hostVars[YmlPath("b")] = <<>>

----------------------------------------------------------------------------
(* C9 *)

\* the YAML files of group_vars
GroupFiles == {g \in DOMAIN groupVars : Last(g) \in YamlExts}

\* the variable files of host h that hold key k, and those of them whose value
\* is not the one group file g gives k
Holders(h, k) == {f \in FilesOf(hostVars, h) : k \in Keys(hostVars[f])}
Differing(h, g, k) ==
    {f \in Holders(h, k) : Get(hostVars[f], k) # Get(groupVars[g], k)}

\* how many entries of Duplicated Variables, of Inconsistent Variables of host
\* h are about key k of group file g
DupCount(h, g, k) ==
    Count(DuplicatedText(k, g, h),
          Entries(analysis_results[h].DuplicatedVariables, "; "))
IncCount(h, g, k) ==
    LET e == Entries(analysis_results[h].InconsistentVariables, "; ")
    IN  Cardinality({i \in DOMAIN e : \E hv \in VarValues :
            e[i] = InconsistentText(k, g, Get(groupVars[g], k), h, hv)})

\* every variable listed as inconsistent is listed as duplicated, and each
\* sentinel is there exactly when no pair is
HenceOfAllPairs(h) ==
    /\ NamedVars([DuplicatedVariables |-> NoDuplicatedVariables,
                  InconsistentVariables |-> analysis_results[h].InconsistentVariables])
          \subseteq
       NamedVars([DuplicatedVariables |-> analysis_results[h].DuplicatedVariables,
                  InconsistentVariables |-> NoInconsistentVariables])
    /\ analysis_results[h].DuplicatedVariables = NoDuplicatedVariables
          <=> \A g \in GroupFiles : \A k \in Keys(groupVars[g]) : Holders(h, k) = {}
    /\ analysis_results[h].InconsistentVariables = NoInconsistentVariables
          <=> \A g \in GroupFiles : \A k \in Keys(groupVars[g]) : Differing(h, g, k) = {}

\* the statement of C9 as claimed: for a host of the model, Duplicated
\* Variables has one entry for each pair (group file, key) whose key a variable
\* file of the host holds, Inconsistent Variables one for each such pair whose
\* values differ, whatever the groups of the host
C9_OneEntryPerPair ==
    JustAnalyzed =>
        \A h \in DOMAIN hosts :
            /\ \A g \in GroupFiles : \A k \in Keys(groupVars[g]) :
                  /\ DupCount(h, g, k) = IF Holders(h, k) # {} THEN 1 ELSE 0
                  /\ IncCount(h, g, k) = IF Differing(h, g, k) # {} THEN 1 ELSE 0
            /\ HenceOfAllPairs(h)

\* C9, amended: for a host of the model, Duplicated Variables has one entry
\* for each triple (group file, variable file of the host, key) whose key is in
\* both documents, and nothing else; Inconsistent Variables one for each such
\* triple whose two values differ, and nothing else; whatever the groups of
\* the host.  A host with both <h>.yaml and <h>.yml holding the key has the
\* same Duplicated Variables entry twice.
C9_AllPairs ==
    JustAnalyzed =>
        \A h \in DOMAIN hosts :
            /\ \A g \in GroupFiles : \A k \in Keys(groupVars[g]) :
                  /\ DupCount(h, g, k) = Cardinality(Holders(h, k))
                  /\ IncCount(h, g, k) = Cardinality(Differing(h, g, k))
            /\ \A e \in Range(Entries(analysis_results[h].DuplicatedVariables, "; ")) :
                  \E g \in GroupFiles : \E k \in Keys(groupVars[g]) :
                      e = DuplicatedText(k, g, h)
            /\ \A e \in Range(Entries(analysis_results[h].InconsistentVariables, "; ")) :
                  \E g \in GroupFiles : \E k \in Keys(groupVars[g]) : \E hv \in VarValues :
                      e = InconsistentText(k, g, Get(groupVars[g], k), h, hv)
            /\ HenceOfAllPairs(h)

\* host a, a member of g1 alone and with both a.yaml and a.yml, is reported
\* against g2.yml as well: its variable is listed as duplicated twice for each
\* group file and as inconsistent once for each, the values of one file
\* agreeing with the group's
C9_Witness ==
    /\ JustAnalyzed
    /\ "a" \in DOMAIN hosts /\ hosts["a"] = <<"g1">>
    /\ <<"g2", ".yml">> \in GroupFiles
    /\ Cardinality(FilesOf(hostVars, "a")) = 2
    /\ DupCount("a", <<"g1", ".yml">>, "port") = 2
    /\ DupCount("a", <<"g2", ".yml">>, "port") = 2
    /\ IncCount("a", <<"g1", ".yml">>, "port") = 1
    /\ IncCount("a", <<"g2", ".yml">>, "port") = 1

====
